---- MODULE Spec2Model ----
(***************************************************************************)
(* A model of app1.py, the stock market dashboard: one run of main().      *)
(*                                                                         *)
(* Text (the ticker-entry field, ticker symbols) is a sequence of          *)
(* one-character strings, so that upper(), split(',') and strip() are      *)
(* computed character by character.  A float is a fixed-point integer in   *)
(* units of 1/Unit (four decimals); a share volume is a plain integer.     *)
(* Optional values are tagged records: None, NaN, or Num(x).               *)
(***************************************************************************)
EXTENDS Integers, Sequences, FiniteSets, TLC

VARIABLES
    pc,             \* position in main(): "start", "input", "fetch", "done", "error"
    now,            \* datetime.now(et_tz): [weekday, hour, minute] in US/Eastern
    market_status,  \* what is_market_open() returned: <<is_open, label>>
    market_type,    \* the radio selection: "market" or "pre_market"
    new_tickers,    \* the raw content of the ticker-entry text field
    button,         \* whether 'Refresh Data' was pressed in this run
    all_tickers,    \* the ticker list main() works on
    responses,      \* what the provider answered for each symbol fetched so far
    results,        \* the list `results` of main()
    df,             \* the formatted table handed to st.dataframe
    csv             \* the rows of the CSV export, header first

vars == <<pc, now, market_status, market_type, new_tickers, button,
          all_tickers, responses, results, df, csv>>

----------------------------------------------------------------------------
(* Bounds of the model *)

\* longest text typed into the ticker-entry field
MaxLen == 4

\* most symbols of one refresh for which the provider answers something
\* other than the nominal two-bar history / complete snapshot
MaxAnomalies == 1

----------------------------------------------------------------------------
(* Values *)

Unit == 100 * 100

None == [tag |-> "None"]
NaN == [tag |-> "nan"]
Num(x) == [tag |-> "num", v |-> x]

IsNum(x) == x.tag = "num"

Unset == <<>>

----------------------------------------------------------------------------
(* MarketClock *)

WeekendLabel == "Market is closed (Weekend)"
PreMarketLabel == "Pre-market hours (4:00 AM - 9:30 AM ET)"
RegularLabel == "Regular market hours (9:30 AM - 4:00 PM ET)"
AfterHoursLabel == "After-hours (4:00 PM - 8:00 PM ET)"
ClosedLabel == "Market is closed (Outside trading hours)"

\* hour + minute/60, kept exact by scaling with 60: the value is a number of
\* minutes, and the bounds 4, 9.5, 16 and 20 become 240, 570, 960 and 1200.
current_time_float(current_time) == current_time.hour * 60 + current_time.minute

\* faulty variant: the weekend test misses Saturday
is_market_open_sunday_only(current_time) ==
    LET t == current_time_float(current_time) IN
    IF current_time.weekday > 5 THEN <<FALSE, WeekendLabel>>
    ELSE IF 4 * 60 <= t /\ t < 570 THEN <<TRUE, PreMarketLabel>>
    ELSE IF 570 <= t /\ t < 16 * 60 THEN <<TRUE, RegularLabel>>
    ELSE IF 16 * 60 <= t /\ t < 20 * 60 THEN <<TRUE, AfterHoursLabel>>
    ELSE <<FALSE, ClosedLabel>>

\* faulty variant: the interval bounds are closed on the right
is_market_open_closed_intervals(current_time) ==
    LET t == current_time_float(current_time) IN
    IF current_time.weekday >= 5 THEN <<FALSE, WeekendLabel>>
    ELSE IF 4 * 60 <= t /\ t <= 570 THEN <<TRUE, PreMarketLabel>>
    ELSE IF 570 <= t /\ t <= 16 * 60 THEN <<TRUE, RegularLabel>>
    ELSE IF 16 * 60 <= t /\ t <= 20 * 60 THEN <<TRUE, AfterHoursLabel>>
    ELSE <<FALSE, ClosedLabel>>

is_market_open(current_time) ==
    LET t == current_time_float(current_time) IN
    IF current_time.weekday >= 5 THEN <<FALSE, WeekendLabel>>
    ELSE IF 4 * 60 <= t /\ t < 570 THEN <<TRUE, PreMarketLabel>>
    ELSE IF 570 <= t /\ t < 16 * 60 THEN <<TRUE, RegularLabel>>
    ELSE IF 16 * 60 <= t /\ t < 20 * 60 THEN <<TRUE, AfterHoursLabel>>
    ELSE <<FALSE, ClosedLabel>>

\* every Eastern wall-clock reading: weekday() is 0 (Monday) .. 6 (Sunday)
Instants == [weekday : 0..6, hour : 0..23, minute : 0..59]

----------------------------------------------------------------------------
(* TickerListBuilder *)

default_tickers ==
    << <<"N","V","D","A">>, <<"A","A","P","L">>, <<"G","O","O","G","L">>,
       <<"M","S","F","T">>, <<"M","E","T","A">>, <<"T","S","L","A">>,
       <<"A","M","D">>, <<"A","M","Z","N">>, <<"N","F","L","X">>,
       <<"I","N","T","C">>, <<"S","O","U","N">>, <<"P","L","T","R">>,
       <<"A","V","G","O">>, <<"R","G","T","I">>, <<"I","O","N","Q">> >>

\* the characters the model types into the text field
Alphabet == {"a", "A", "m", "d", ",", " "}

\* str.upper() on one character
UpperChar(c) ==
    CASE c = "a" -> "A"
      [] c = "b" -> "B"
      [] c = "c" -> "C"
      [] c = "d" -> "D"
      [] c = "m" -> "M"
      [] OTHER -> c

upper(s) == [i \in 1..Len(s) |-> UpperChar(s[i])]

\* str.split(','): n commas give n+1 pieces, empty pieces included
RECURSIVE split(_)
split(s) ==
    IF \A i \in 1..Len(s) : s[i] # ","
    THEN <<s>>
    ELSE LET k == CHOOSE i \in 1..Len(s) :
                      s[i] = "," /\ \A j \in 1..(i - 1) : s[j] # ","
         IN <<SubSeq(s, 1, k - 1)>> \o split(SubSeq(s, k + 1, Len(s)))

\* str.strip(): leading and trailing whitespace removed
RECURSIVE strip(_)
strip(s) ==
    IF s = <<>> THEN s
    ELSE IF Head(s) = " " THEN strip(Tail(s))
    ELSE IF s[Len(s)] = " " THEN strip(SubSeq(s, 1, Len(s) - 1))
    ELSE s

\* faulty variant: the last occurrence of each symbol is the one kept
RECURSIVE dedup_keep_last(_)
dedup_keep_last(l) ==
    IF l = <<>> THEN l
    ELSE IF \E j \in 2..Len(l) : l[j] = Head(l)
         THEN dedup_keep_last(Tail(l))
         ELSE <<Head(l)>> \o dedup_keep_last(Tail(l))

\* list(dict.fromkeys(l)): the first occurrence of each key, in order
RECURSIVE dedup(_)
dedup(l) ==
    IF l = <<>> THEN l
    ELSE LET front == SubSeq(l, 1, Len(l) - 1)
             last == l[Len(l)]
         IN IF \E j \in 1..Len(front) : front[j] = last
            THEN dedup(front)
            ELSE Append(dedup(front), last)

\* the pieces of the entered text: upper-cased, split on commas, trimmed
additional_tickers(text) ==
    LET pieces == split(upper(text)) IN
    [i \in 1..Len(pieces) |-> strip(pieces[i])]

build_tickers(defaults, text) ==
    LET entered == upper(text) IN
    dedup(IF entered # <<>> THEN defaults \o additional_tickers(text)
                            ELSE defaults)

RECURSIVE TextsUpTo(_)
TextsUpTo(n) ==
    IF n = 0 THEN {<<>>}
    ELSE LET shorter == TextsUpTo(n - 1) IN
         shorter \cup {Append(s, c) : s \in {x \in shorter : Len(x) = n - 1},
                                      c \in Alphabet}

Texts == TextsUpTo(MaxLen)

----------------------------------------------------------------------------
(* QuoteFetcher *)

\* the decimals of r / b (0 <= r < b), one digit per step, appended to acc
RECURSIVE Decimals(_, _, _, _)
Decimals(r, b, n, acc) ==
    IF n = 0 THEN acc
    ELSE Decimals((r * 10) % b, b, n - 1, acc * 10 + (r * 10) \div b)

\* a / b for a >= 0 and b > 0, in units of 1/Unit: the quotient to four
\* decimals, which decides its two-decimal rendering except at an exact tie
Quotient(a, b) == Decimals(a % b, b, 4, a \div b)

\* (change / prev) * 100 on floats; numpy gives nan for 0/0 and inf for x/0
percent_change(change, prev) ==
    IF prev = 0
    THEN (IF change = 0 THEN NaN ELSE [tag |-> "inf", neg |-> change < 0])
    ELSE IF (change >= 0) = (prev > 0)
    THEN Num(Quotient((IF change >= 0 THEN change ELSE -change) * 100,
                      IF prev > 0 THEN prev ELSE -prev))
    ELSE Num(-Quotient((IF change >= 0 THEN change ELSE -change) * 100,
                       IF prev > 0 THEN prev ELSE -prev))

Dollars(d, c) == d * Unit + c * 100

Bar(close, volume) == [Close |-> close, Volume |-> volume]

\* stock.history(period='2d'): raises, or returns zero, one, two or more daily
\* bars, oldest first, each with a positive close
NominalHistory ==
    [kind |-> "hist",
     bars |-> <<Bar(Dollars(148, 0), 1000000), Bar(Dollars(150, 0), 1234567)>>]

RaisedError == [kind |-> "raise"]

HistoryAnomalies ==
    { RaisedError,
      [kind |-> "hist", bars |-> <<>>],
      [kind |-> "hist", bars |-> <<Bar(Dollars(150, 0), 1234567)>>],
      [kind |-> "hist",
       bars |-> <<Bar(Dollars(100, 0), 500), Bar(Dollars(98, 50), 999)>>],
      [kind |-> "hist",
       bars |-> <<Bar(Dollars(90, 0), 777), Bar(Dollars(100, 0), 12345),
                  Bar(Dollars(101, 23), 0)>>] }

\* ticker.info: raises, or is a mapping in which any of the three keys may
\* be missing (market_data.get gives None) or hold a number, zero included
Info(pre, reg, prev) ==
    [kind |-> "info", preMarketPrice |-> pre, regularMarketPrice |-> reg,
     previousClose |-> prev]

NominalInfo ==
    Info(Num(Dollars(150, 0)), Num(Dollars(149, 0)), Num(Dollars(148, 0)))

InfoAnomalies ==
    { RaisedError,
      Info(None, Num(Dollars(149, 0)), Num(Dollars(148, 0))),
      Info(Num(Dollars(150, 0)), Num(Dollars(149, 0)), None),
      Info(Num(Dollars(150, 0)), None, Num(Dollars(148, 0))),
      Info(Num(0), Num(Dollars(149, 0)), Num(Dollars(148, 0))),
      Info(Num(Dollars(146, 50)), Num(Dollars(149, 0)), Num(Dollars(148, 0))),
      Info(None, None, None) }

\* Python truthiness of an optional number: None and 0 are false
Truthy(x) == IsNum(x) /\ x.v # 0

get_premarket_price(ticker_symbol, response) ==
    IF response.kind = "raise"
    THEN [Ticker |-> ticker_symbol, Price |-> None,
          RegularMarketPrice |-> None, PreviousClose |-> None,
          Change |-> None, ChangePct |-> None]
    ELSE LET price == response.preMarketPrice
             prev == response.previousClose
         IN IF Truthy(price) /\ Truthy(prev)
            THEN [Ticker |-> ticker_symbol, Price |-> price,
                  RegularMarketPrice |-> response.regularMarketPrice,
                  PreviousClose |-> prev,
                  Change |-> Num(price.v - prev.v),
                  ChangePct |-> percent_change(price.v - prev.v, prev.v)]
            ELSE [Ticker |-> ticker_symbol, Price |-> price,
                  RegularMarketPrice |-> response.regularMarketPrice,
                  PreviousClose |-> prev,
                  Change |-> None, ChangePct |-> None]

\* faulty variant: the except branch returns nothing
get_market_price_bare_except(ticker_symbol, response) ==
    IF response.kind = "raise" THEN None
    ELSE IF response.bars # <<>>
    THEN LET hist == response.bars
             current == hist[Len(hist)].Close
             prev == IF Len(hist) > 1 THEN hist[Len(hist) - 1].Close ELSE current
             change == current - prev
         IN [Ticker |-> ticker_symbol, Price |-> Num(current),
             Change |-> Num(change), ChangePct |-> percent_change(change, prev),
             Volume |-> Num(hist[Len(hist)].Volume)]
    ELSE None

\* faulty variant: the change is taken against the latest close itself
get_market_price_prev_is_current(ticker_symbol, response) ==
    IF response.kind = "raise"
    THEN [Ticker |-> ticker_symbol, Price |-> None, Change |-> None,
          ChangePct |-> None, Volume |-> None]
    ELSE IF response.bars # <<>>
    THEN LET hist == response.bars
             current == hist[Len(hist)].Close
             prev == current
             change == current - prev
         IN [Ticker |-> ticker_symbol, Price |-> Num(current),
             Change |-> Num(change), ChangePct |-> percent_change(change, prev),
             Volume |-> Num(hist[Len(hist)].Volume)]
    ELSE None

\* The function returns None (no record at all) when the history is empty:
\* the `if not hist.empty` block is skipped and the try block falls off its end.
get_market_price(ticker_symbol, response) ==
    IF response.kind = "raise"
    THEN [Ticker |-> ticker_symbol, Price |-> None, Change |-> None,
          ChangePct |-> None, Volume |-> None]
    ELSE IF response.bars # <<>>
    THEN LET hist == response.bars
             current == hist[Len(hist)].Close
             prev == IF Len(hist) > 1 THEN hist[Len(hist) - 1].Close ELSE current
             change == current - prev
         IN [Ticker |-> ticker_symbol, Price |-> Num(current),
             Change |-> Num(change), ChangePct |-> percent_change(change, prev),
             Volume |-> Num(hist[Len(hist)].Volume)]
    ELSE None

----------------------------------------------------------------------------
(* ReportFormatter *)

NA == "N/A"

Pad2(n) == IF n < 10 THEN "0" \o ToString(n) ELSE ToString(n)

Pad3(n) == IF n < 10 THEN "00" \o ToString(n)
           ELSE IF n < 100 THEN "0" \o ToString(n) ELSE ToString(n)

\* '.2f' of a magnitude m >= 0 given in units of 1/Unit
Fixed2(m) ==
    LET cents == (m + 50) \div 100 IN
    ToString(cents \div 100) \o "." \o Pad2(cents % 100)

\* format(x, '.2f') when plus is FALSE, format(x, '+.2f') when it is TRUE
float_2f(x, plus) ==
    CASE x.tag = "nan" -> (IF plus THEN "+nan" ELSE "nan")
      [] x.tag = "inf" -> (IF x.neg THEN "-inf" ELSE IF plus THEN "+inf" ELSE "inf")
      [] OTHER -> IF x.v < 0 THEN "-" \o Fixed2(-x.v)
                  ELSE (IF plus THEN "+" ELSE "") \o Fixed2(x.v)

\* the digits of n >= 0 in groups of three
RECURSIVE Grouped(_)
Grouped(n) ==
    IF n < 1000 THEN ToString(n)
    ELSE Grouped(n \div 1000) \o "," \o Pad3(n % 1000)

\* isinstance(x, (int, float)): true of numbers, nan and inf, false of None
is_number(x) == x # None

\* f'${x:.2f}' if isinstance(x, (int, float)) else 'N/A'
format_price(x) == IF is_number(x) THEN "$" \o float_2f(x, FALSE) ELSE NA

\* f'${x:+.2f}' if isinstance(x, (int, float)) else 'N/A'
format_change(x) == IF is_number(x) THEN "$" \o float_2f(x, TRUE) ELSE NA

\* f'{x:+.2f}%' if isinstance(x, (int, float)) else 'N/A'
format_change_percent(x) == IF is_number(x) THEN float_2f(x, TRUE) \o "%" ELSE NA

\* f'{x:,.0f}' if isinstance(x, (int, float)) else 'N/A'
format_volume(x) ==
    IF ~is_number(x) THEN NA
    ELSE IF x.tag = "num" THEN (IF x.v < 0 THEN "-" \o Grouped(-x.v) ELSE Grouped(x.v))
    ELSE float_2f(x, FALSE)

\* the keys of a record, in the order the fetch functions insert them
columns_of(record) ==
    IF "Volume" \in DOMAIN record
    THEN <<"Ticker", "Price", "Change", "ChangePct", "Volume">>
    ELSE <<"Ticker", "Price", "RegularMarketPrice", "PreviousClose",
           "Change", "ChangePct">>

\* the column labels as the table and the export show them
header(c) ==
    CASE c = "ChangePct" -> "Change%"
      [] c = "RegularMarketPrice" -> "Regular Market Price"
      [] c = "PreviousClose" -> "Previous Close"
      [] OTHER -> c

\* pd.DataFrame(records): a column whose values are all None keeps them as
\* None (dtype object); a column that holds a number becomes float64, and its
\* None values become nan.
frame_cell(records, i, c) ==
    LET x == records[i][c] IN
    IF c = "Ticker" THEN x
    ELSE IF x = None /\ \E j \in 1..Len(records) : records[j][c] # None THEN NaN
    ELSE x

format_cell(c, x) ==
    CASE c \in {"Price", "RegularMarketPrice", "PreviousClose"} -> format_price(x)
      [] c = "Change" -> format_change(x)
      [] c = "ChangePct" -> format_change_percent(x)
      [] c = "Volume" -> format_volume(x)
      [] OTHER -> x

format_table(records) ==
    [i \in 1..Len(records) |->
        [c \in DOMAIN records[i] |-> format_cell(c, frame_cell(records, i, c))]]

\* df.to_csv(index=False): the header row, then one row per record, cells in
\* column order
to_csv(table, columns) ==
    <<[k \in 1..Len(columns) |-> header(columns[k])]>> \o
    [i \in 1..Len(table) |-> [k \in 1..Len(columns) |-> table[i][columns[k]]]]

----------------------------------------------------------------------------
(* main() *)

MarketTypes == {"market", "pre_market"}

Nominal(mt) == IF mt = "pre_market" THEN NominalInfo ELSE NominalHistory

Anomalies(mt) == IF mt = "pre_market" THEN InfoAnomalies ELSE HistoryAnomalies

AnomalyCount == Cardinality({i \in 1..Len(responses) : responses[i] # Nominal(market_type)})

fetch(mt, ticker, response) ==
    IF mt = "pre_market" THEN get_premarket_price(ticker, response)
                         ELSE get_market_price(ticker, response)

\* is_open, market_status = is_market_open(); st.info(...)
CheckMarketStatus ==
    /\ pc = "start"
    /\ market_status' = is_market_open(now)
    /\ pc' = "input"
    /\ UNCHANGED <<now, market_type, new_tickers, button, all_tickers,
                   responses, results, df, csv>>

\* the radio, the text field and the ticker list; without the button pressed
\* the run ends after the list is written
BuildTickerList ==
    /\ pc = "input"
    /\ all_tickers' = build_tickers(default_tickers, new_tickers)
    /\ pc' = IF button THEN "fetch" ELSE "done"
    /\ UNCHANGED <<now, market_status, market_type, new_tickers, button,
                   responses, results, df, csv>>

\* one iteration of `for ticker in all_tickers`
FetchNext ==
    /\ pc = "fetch"
    /\ Len(results) < Len(all_tickers)
    /\ \E response \in {Nominal(market_type)} \cup
                       (IF AnomalyCount < MaxAnomalies THEN Anomalies(market_type)
                                                       ELSE {}) :
          /\ responses' = Append(responses, response)
          /\ results' = Append(results,
                               fetch(market_type, all_tickers[Len(results) + 1],
                                     response))
    /\ UNCHANGED <<pc, now, market_status, market_type, new_tickers, button,
                   all_tickers, df, csv>>

\* pd.DataFrame(results), the column formatting, st.dataframe and to_csv.
\* With a None among the results the constructor raises AttributeError
\* (None has no keys) when the first entry is a dict; when the first entry is
\* None itself the list is taken as one column of objects, labelled 0, which
\* no formatting rule names.
ShowTable ==
    /\ pc = "fetch"
    /\ Len(results) = Len(all_tickers)
    /\ IF \A i \in 1..Len(results) : results[i] # None
       THEN /\ df' = format_table(results)
            /\ csv' = to_csv(df', columns_of(results[1]))
            /\ pc' = "done"
       ELSE IF results[1] = None
       THEN /\ df' = [i \in 1..Len(results) |-> [c \in {"0"} |-> results[i]]]
            /\ csv' = to_csv(df', <<"0">>)
            /\ pc' = "done"
       ELSE /\ pc' = "error"
            /\ UNCHANGED <<df, csv>>
    /\ UNCHANGED <<now, market_status, market_type, new_tickers, button,
                   all_tickers, responses, results>>

\* the clock readings and the entered texts of the whole-program runs
SampleInstants ==
    {[weekday |-> 2, hour |-> 9, minute |-> 30],
     [weekday |-> 6, hour |-> 12, minute |-> 0]}

SampleTexts == {<<>>, <<"a", ",", " ", "a", "m", "d", " ">>}

InitWith(instants, types, texts, buttons) ==
    /\ pc = "start"
    /\ now \in instants
    /\ market_status = Unset
    /\ market_type \in types
    /\ new_tickers \in texts
    /\ button \in buttons
    /\ all_tickers = <<>>
    /\ responses = <<>>
    /\ results = <<>>
    /\ df = <<>>
    /\ csv = <<>>

Init == InitWith(SampleInstants, MarketTypes, SampleTexts, BOOLEAN)

Next == CheckMarketStatus \/ BuildTickerList \/ FetchNext \/ ShowTable

Spec == Init /\ [][Next]_vars

\* runs in which the refresh button is not pressed: every clock reading
InitClock == InitWith(Instants, {"market"}, {<<>>}, {FALSE})

\* runs in which the refresh button is not pressed: every entered text
InitTickers == InitWith({[weekday |-> 2, hour |-> 9, minute |-> 30]},
                        {"market"}, Texts, {FALSE})

NextIdle == CheckMarketStatus \/ BuildTickerList

SpecClock == InitClock /\ [][NextIdle]_vars

SpecTickers == InitTickers /\ [][NextIdle]_vars

----------------------------------------------------------------------------
(* Properties *)

Fetched == 1..Len(results)

NullQuote(ticker) ==
    [Ticker |-> ticker, Price |-> None, Change |-> None, ChangePct |-> None,
     Volume |-> None]

IsEmptyHistory(response) == response.kind = "hist" /\ response.bars = <<>>

\* C1: in regular-market mode every fetch returns a record, never a missing
\* value: its Ticker is the requested symbol, and when the provider returned an
\* empty history its Price, Change, Change% and Volume are all null.
C1_FetchAlwaysReturnsRecord ==
    market_type = "market" =>
        \A i \in Fetched :
            /\ results[i] # None
            /\ results[i].Ticker = all_tickers[i]
            /\ IsEmptyHistory(responses[i]) => results[i] = NullQuote(all_tickers[i])

\* C2: in regular-market mode a symbol for which the provider raised gets the
\* record with the symbol and four nulls, the loop goes on (one result per
\* provider call), and the result of every later symbol is what its own symbol
\* and its own provider answer give, whatever happened before it.
C2_ErrorGivesNullRecordAndLeavesRestAlone ==
    market_type = "market" =>
        /\ Len(results) = Len(responses)
        /\ \A i \in Fetched :
              responses[i] = RaisedError =>
                  /\ results[i] = NullQuote(all_tickers[i])
                  /\ \A j \in Fetched :
                        j > i => results[j] =
                                   get_market_price(all_tickers[j], responses[j])

\* C2 witness: a finished regular-market refresh in which the provider raised
\* for a symbol that is not the last one, and the next symbol got its quote.
C2_Witness ==
    /\ pc = "done"
    /\ market_type = "market"
    /\ \E i \in Fetched :
          /\ i < Len(results)
          /\ responses[i] = RaisedError
          /\ results[i] = NullQuote(all_tickers[i])
          /\ results[i + 1].Price = Num(Dollars(150, 0))

\* C3: in either mode a refresh that has gone through the ticker list holds one
\* result per symbol, in list order, and the i-th result is a record whose
\* Ticker is the i-th symbol, whatever the provider answered.
C3_OneRecordPerSymbolInOrder ==
    (button /\ pc \in {"done", "error"}) =>
        /\ Len(results) = Len(all_tickers)
        /\ \A i \in Fetched :
              results[i] # None /\ results[i].Ticker = all_tickers[i]

MinuteOfDay == now.hour * 60 + now.minute

\* C4: on a weekday the status is pre-market exactly from 04:00 up to but not
\* including 09:30, regular from 09:30 up to 16:00, after-hours from 16:00 up
\* to 20:00 and closed otherwise; 09:29 is pre-market, 09:30 and 15:59 regular,
\* 16:00 after-hours, 20:00 and 03:59 closed; every minute gets one of the four.
C4_WeekdayIntervals ==
    (pc # "start" /\ now.weekday < 5) =>
        /\ market_status \in {<<TRUE, PreMarketLabel>>, <<TRUE, RegularLabel>>,
                              <<TRUE, AfterHoursLabel>>, <<FALSE, ClosedLabel>>}
        /\ market_status = <<TRUE, PreMarketLabel>>
              <=> (240 <= MinuteOfDay /\ MinuteOfDay < 570)
        /\ market_status = <<TRUE, RegularLabel>>
              <=> (570 <= MinuteOfDay /\ MinuteOfDay < 960)
        /\ market_status = <<TRUE, AfterHoursLabel>>
              <=> (960 <= MinuteOfDay /\ MinuteOfDay < 1200)
        /\ (now.hour = 9 /\ now.minute = 29) => market_status[2] = PreMarketLabel
        /\ (now.hour = 9 /\ now.minute = 30) => market_status[2] = RegularLabel
        /\ (now.hour = 15 /\ now.minute = 59) => market_status[2] = RegularLabel
        /\ (now.hour = 16 /\ now.minute = 0) => market_status[2] = AfterHoursLabel
        /\ (now.hour = 20 /\ now.minute = 0) => market_status = <<FALSE, ClosedLabel>>
        /\ (now.hour = 3 /\ now.minute = 59) => market_status = <<FALSE, ClosedLabel>>

\* C4 witness: Monday 09:30 has been classified, as regular hours.
C4_Witness ==
    /\ pc # "start"
    /\ now = [weekday |-> 0, hour |-> 9, minute |-> 30]
    /\ market_status = <<TRUE, RegularLabel>>

\* C5: on a Saturday or a Sunday the status is closed with the weekend label,
\* at every hour and minute.
C5_WeekendAlwaysClosed ==
    (pc # "start" /\ now.weekday >= 5) => market_status = <<FALSE, WeekendLabel>>

\* C5 witness: a Saturday at 10:15, inside weekday regular hours, classified
\* as weekend.
C5_Witness ==
    /\ pc # "start"
    /\ now = [weekday |-> 5, hour |-> 10, minute |-> 15]
    /\ market_status = <<FALSE, WeekendLabel>>

Range(l) == {l[i] : i \in 1..Len(l)}

FirstIndex(l, x) == CHOOSE i \in 1..Len(l) : l[i] = x /\ \A j \in 1..(i - 1) : l[j] # x

Entered == IF new_tickers = <<>> THEN <<>> ELSE additional_tickers(new_tickers)

Extra == SubSeq(all_tickers, Len(default_tickers) + 1, Len(all_tickers))

\* C6: the ticker list has no duplicate, starts with the defaults in their
\* order, and then holds the entered symbols (trimmed, upper-cased) that are not
\* defaults, each once, in the order of their first occurrence; an empty piece
\* is kept as one empty symbol; empty text gives exactly the defaults; defaults
\* [A,B] with "B, c ,A" give [A,B,C] and with "A,,B" give [A,B,""].
C6_TickerListIsStableDedup ==
    /\ pc = "done" =>
          /\ \A i, j \in 1..Len(all_tickers) : all_tickers[i] = all_tickers[j] => i = j
          /\ Len(all_tickers) >= Len(default_tickers)
          /\ SubSeq(all_tickers, 1, Len(default_tickers)) = default_tickers
          /\ Range(Extra) = Range(Entered) \ Range(default_tickers)
          /\ \A k, l \in 1..Len(Extra) :
                k < l => FirstIndex(Entered, Extra[k]) < FirstIndex(Entered, Extra[l])
          /\ (new_tickers = <<>>) => all_tickers = default_tickers
          /\ (\E k \in 1..Len(Entered) : Entered[k] = <<>>)
                => Cardinality({i \in 1..Len(all_tickers) : all_tickers[i] = <<>>}) = 1
    /\ build_tickers(<< <<"A">>, <<"B">> >>,
                     <<"B", ",", " ", "c", " ", ",", "A">>)
          = << <<"A">>, <<"B">>, <<"C">> >>
    /\ build_tickers(<< <<"A">>, <<"B">> >>, <<"A", ",", ",", "B">>)
          = << <<"A">>, <<"B">>, <<>> >>

\* C6 witness: the text "d, a" has been merged: D and A follow the defaults.
C6_Witness ==
    /\ pc = "done"
    /\ new_tickers = <<"d", ",", " ", "a">>
    /\ all_tickers = default_tickers \o << <<"D">>, <<"A">> >>

\* C7: in pre-market mode Change and Change% are computed whenever the snapshot
\* holds both a pre-market price and a previous close, a pre-market price of 0
\* included, and are null otherwise; a provider error gives the all-null record.
C7_ChangeWhenBothPresent ==
    market_type = "pre_market" =>
        \A i \in Fetched :
            IF responses[i] = RaisedError
            THEN results[i] = [Ticker |-> all_tickers[i], Price |-> None,
                               RegularMarketPrice |-> None, PreviousClose |-> None,
                               Change |-> None, ChangePct |-> None]
            ELSE LET price == responses[i].preMarketPrice
                     prev == responses[i].previousClose
                 IN IF price # None /\ prev # None
                    THEN /\ results[i].Change = Num(price.v - prev.v)
                         /\ results[i].ChangePct # None
                    ELSE /\ results[i].Change = None
                         /\ results[i].ChangePct = None

NumericColumns == {"Price", "Change", "ChangePct", "Volume"}

TableShown == pc = "done" /\ button /\ \A i \in Fetched : results[i] # None

\* C8: in the regular-market table every null value of a numeric column is
\* rendered "N/A", also when other rows of the column hold numbers; the rows are
\* those of the ticker list in order, in the table and in the export.
C8_MissingRendersNA ==
    (TableShown /\ market_type = "market") =>
        /\ Len(df) = Len(all_tickers)
        /\ Len(csv) = Len(all_tickers) + 1
        /\ \A i \in Fetched :
              /\ df[i].Ticker = all_tickers[i]
              /\ csv[i + 1][1] = all_tickers[i]
              /\ \A c \in NumericColumns : results[i][c] = None => df[i][c] = NA

\* C9: the Change column shows the sign before the dollar sign: 1.23 is
\* rendered "+$1.23", -1.5 is rendered "-$1.50".
C9_SignBeforeDollar ==
    (TableShown /\ market_type = "market") =>
        \A i \in Fetched :
            /\ results[i].Change = Num(Dollars(1, 23)) => df[i].Change = "+$1.23"
            /\ results[i].Change = Num(-Dollars(1, 50)) => df[i].Change = "-$1.50"

====
